---- MODULE Spec2Model ----
(***************************************************************************)
(* The incremental lexer of src/src/tokenize.rs: the Lexer state machine   *)
(* (Lexer::feed), the buffer-to-number conversion and the tokenize driver. *)
(* Characters are one-character strings; the end-of-input signal, which    *)
(* the code passes as Option::None, is the string "None".                  *)
(***************************************************************************)
EXTENDS Integers, Sequences, FiniteSets, TLC

VARIABLES state, buffer, fed, rets, input, orig, chars, tokens, pc, result, peer

vars == <<state, buffer, fed, rets, input, orig, chars, tokens, pc, result, peer>>

(* ------------------------------ bounds ---------------------------------- *)

\* number of feed calls a direct caller of Lexer::feed makes
MaxFeeds == 4
\* length of the arbitrary input strings handed to tokenize
MaxLen == 4
\* operators in a rendered well-formed expression
MaxOps == 1
\* spaces between two adjacent lexemes of a rendered well-formed expression
MaxGap == 1

(* ---------------------------- characters -------------------------------- *)

None == "None"

Digits == {"0", "1", "2", "3", "4", "5", "6", "7", "8", "9"}

DigitChars == <<"0", "1", "2", "3", "4", "5", "6", "7", "8", "9">>

OperatorChars == {"-", "+", "/", "*"}

\* the characters the arbitrary callers and input strings are drawn from:
\* two digits, the point, the space, the four operators and one other
Alphabet == {"0", "1", ".", " ", "-", "+", "/", "*", "f"}

(* --------------------- helper types of the lexer ------------------------ *)

OperatorKind == {"Subtract", "Plus", "Divide", "Multiply"}

Initial == [tag |-> "Initial"]
WhitespaceBeforeOperator == [tag |-> "WhitespaceBeforeOperator"]
WhitespaceAfterOperator == [tag |-> "WhitespaceAfterOperator"]
Operator(kind) == [tag |-> "Operator", kind |-> kind]
NumberIntegers == [tag |-> "NumberIntegers"]
NumberPoint == [tag |-> "NumberPoint"]
NumberDecimals == [tag |-> "NumberDecimals"]
End == [tag |-> "End"]
Error == [tag |-> "Error"]

TokenOperator(kind) == [t |-> "Operator", kind |-> kind]
TokenNumber(v) == [t |-> "Number", v |-> v]
TokenWhitespace == [t |-> "Whitespace"]

ExpectedDigitAfterPoint == [e |-> "IncorrectNumber", d |-> "ExpectedDigitAfterPoint"]
UnexpectedCharacter(c) == [e |-> "IncorrectExpression", d |-> "UnexpectedCharacter", c |-> c]
UnexpectedEOI == [e |-> "IncorrectExpression", d |-> "UnexpectedEOI"]

\* Result<Option<Token>, LexingError>
OkNone == [r |-> "Ok", some |-> FALSE]
OkSome(tok) == [r |-> "Ok", some |-> TRUE, tok |-> tok]
Err(e) == [r |-> "Err", err |-> e]

(* --------------------------- pure functions ----------------------------- *)

is_digit(c) == c \in Digits

get_operator_kind(c) ==
    CASE c = "-" -> "Subtract"
      [] c = "+" -> "Plus"
      [] c = "/" -> "Divide"
      [] c = "*" -> "Multiply"
      [] OTHER -> None

is_ended(st) == st = End

DigitVal(c) == CHOOSE i \in 0..9 : DigitChars[i + 1] = c

Front(s) == SubSeq(s, 1, Len(s) - 1)

Last(s) == s[Len(s)]

\* the digits of a literal read as one integer, the point skipped
RECURSIVE Mantissa(_)
Mantissa(s) ==
    IF s = <<>> THEN 0
    ELSE IF Last(s) = "." THEN Mantissa(Front(s))
    ELSE Mantissa(Front(s)) * 10 + DigitVal(Last(s))

\* the number of digits after the point (0 without a point)
RECURSIVE FracLen(_)
FracLen(s) ==
    IF s = <<>> THEN 0
    ELSE IF \A i \in 1..Len(s) : s[i] # "." THEN 0
    ELSE IF Last(s) = "." THEN 0
    ELSE 1 + FracLen(Front(s))

\* a decimal value m / 10^e in lowest form: equal values, equal records
RECURSIVE Normalise(_, _)
Normalise(m, e) ==
    IF e > 0 /\ m % 10 = 0 THEN Normalise(m \div 10, e - 1)
    ELSE [m |-> m, e |-> e]

\* the text of a literal without its sign
Unsigned(s) == IF s # <<>> /\ s[1] \in {"-", "+"} THEN Tail(s) ELSE s

\* the literals f64::from_str accepts among strings of digits, points and
\* signs: an optional sign, then at most one point and at least one digit;
\* anything else is an Err
IsFloatLiteral(s) ==
    LET u == Unsigned(s)
    IN  /\ \A i \in 1..Len(u) : u[i] \in Digits \cup {"."}
        /\ Cardinality({i \in 1..Len(u) : u[i] = "."}) <= 1
        /\ \E i \in 1..Len(u) : u[i] \in Digits

ParsePanic == [m |-> -1, e |-> -1]

\* f64::from_str(&string).unwrap(): the value of the literal, or the panic
\* of unwrap on an Err
ParseF64(s) ==
    IF IsFloatLiteral(s)
    THEN LET u == Unsigned(s)
             v == Normalise(Mantissa(u), FracLen(u))
         IN  IF s[1] = "-" THEN [m |-> 0 - v.m, e |-> v.e] ELSE v
    ELSE ParsePanic

\* variant: the buffer is read but not drained
drain_buffer_to_decimal_Keep(buf) == [number |-> ParseF64(buf), buffer |-> buf]

\* variant: only the characters before the point are converted
drain_buffer_to_decimal_IntegerPart(buf) ==
    LET points == {i \in 1..Len(buf) : buf[i] = "."}
        upto == IF points = {} THEN Len(buf) ELSE (CHOOSE i \in points : TRUE) - 1
    IN  [number |-> ParseF64(SubSeq(buf, 1, upto)), buffer |-> <<>>]

\* Drain all of the characters in self.buffer and convert it to a number.
drain_buffer_to_decimal(buf) == [number |-> ParseF64(buf), buffer |-> <<>>]

(* ------------------------------ Lexer::feed ----------------------------- *)

\* what one call of feed leaves behind: the new state, the new buffer and
\* the returned value
Out(st, buf, ret) == [state |-> st, buffer |-> buf, ret |-> ret]

\* variant: a terminal lexer starts over
feed_Terminal_Reset(st, buf, c) == Out(Initial, buf, OkNone)

\* State::End | State::Error
feed_Terminal(st, buf, c) == Out(st, buf, OkNone)

\* variant: spaces before the first number are skipped
feed_Initial_SkipSpace(buf, c) ==
    IF c # None THEN
        IF is_digit(c) THEN Out(NumberIntegers, Append(buf, c), OkNone)
        ELSE IF c = " " THEN Out(Initial, buf, OkNone)
        ELSE Out(Error, buf, Err(UnexpectedCharacter(c)))
    ELSE Out(Error, buf, Err(UnexpectedEOI))

feed_Initial(buf, c) ==
    IF c # None THEN
        IF is_digit(c) THEN Out(NumberIntegers, Append(buf, c), OkNone)
        ELSE Out(Error, buf, Err(UnexpectedCharacter(c)))
    ELSE Out(Error, buf, Err(UnexpectedEOI))

\* variant: any other character ends the expression after the number
feed_NumberIntegers_EndOnOther(buf, c) ==
    IF c # None THEN
        IF is_digit(c) THEN Out(NumberIntegers, Append(buf, c), OkNone)
        ELSE IF c = "." THEN Out(NumberPoint, Append(buf, c), OkNone)
        ELSE IF c = " " THEN
            LET d == drain_buffer_to_decimal(buf)
            IN  Out(WhitespaceBeforeOperator, d.buffer, OkSome(TokenNumber(d.number)))
        ELSE IF get_operator_kind(c) # None THEN
            LET d == drain_buffer_to_decimal(buf)
            IN  Out(Operator(get_operator_kind(c)), d.buffer, OkSome(TokenNumber(d.number)))
        ELSE
            LET d == drain_buffer_to_decimal(buf)
            IN  Out(End, d.buffer, OkSome(TokenNumber(d.number)))
    ELSE
        LET d == drain_buffer_to_decimal(buf)
        IN  Out(End, d.buffer, OkSome(TokenNumber(d.number)))

\* variant: an operator right after the digits drains the number unreturned
feed_NumberIntegers_SilentOperator(buf, c) ==
    IF c # None THEN
        IF is_digit(c) THEN Out(NumberIntegers, Append(buf, c), OkNone)
        ELSE IF c = "." THEN Out(NumberPoint, Append(buf, c), OkNone)
        ELSE IF c = " " THEN
            LET d == drain_buffer_to_decimal(buf)
            IN  Out(WhitespaceBeforeOperator, d.buffer, OkSome(TokenNumber(d.number)))
        ELSE IF get_operator_kind(c) # None THEN
            LET d == drain_buffer_to_decimal(buf)
            IN  Out(Operator(get_operator_kind(c)), d.buffer, OkNone)
        ELSE Out(Error, buf, Err(UnexpectedCharacter(c)))
    ELSE
        LET d == drain_buffer_to_decimal(buf)
        IN  Out(End, d.buffer, OkSome(TokenNumber(d.number)))

feed_NumberIntegers(buf, c) ==
    IF c # None THEN
        IF is_digit(c) THEN Out(NumberIntegers, Append(buf, c), OkNone)
        ELSE IF c = "." THEN Out(NumberPoint, Append(buf, c), OkNone)
        ELSE IF c = " " THEN
            LET d == drain_buffer_to_decimal(buf)
            IN  Out(WhitespaceBeforeOperator, d.buffer, OkSome(TokenNumber(d.number)))
        ELSE IF get_operator_kind(c) # None THEN
            LET d == drain_buffer_to_decimal(buf)
            IN  Out(Operator(get_operator_kind(c)), d.buffer, OkSome(TokenNumber(d.number)))
        ELSE Out(Error, buf, Err(UnexpectedCharacter(c)))
    ELSE
        LET d == drain_buffer_to_decimal(buf)
        IN  Out(End, d.buffer, OkSome(TokenNumber(d.number)))

\* variant: the error is returned but the state is left as it was
feed_NumberPoint_NoErrorState(buf, c) ==
    IF c # None THEN
        IF is_digit(c) THEN Out(NumberDecimals, Append(buf, c), OkNone)
        ELSE Out(NumberPoint, buf, Err(ExpectedDigitAfterPoint))
    ELSE Out(NumberPoint, buf, Err(ExpectedDigitAfterPoint))

\* variant: a character after the point is reported as unexpected
feed_NumberPoint_UnexpectedChar(buf, c) ==
    IF c # None THEN
        IF is_digit(c) THEN Out(NumberDecimals, Append(buf, c), OkNone)
        ELSE Out(Error, buf, Err(UnexpectedCharacter(c)))
    ELSE Out(Error, buf, Err(ExpectedDigitAfterPoint))

\* variant: end-of-input after the point ends the number
feed_NumberPoint_EndOnEOI(buf, c) ==
    IF c # None THEN
        IF is_digit(c) THEN Out(NumberDecimals, Append(buf, c), OkNone)
        ELSE Out(Error, buf, Err(ExpectedDigitAfterPoint))
    ELSE
        LET d == drain_buffer_to_decimal(buf)
        IN  Out(End, d.buffer, OkSome(TokenNumber(d.number)))

feed_NumberPoint(buf, c) ==
    IF c # None THEN
        IF is_digit(c) THEN Out(NumberDecimals, Append(buf, c), OkNone)
        ELSE Out(Error, buf, Err(ExpectedDigitAfterPoint))
    ELSE Out(Error, buf, Err(ExpectedDigitAfterPoint))

\* variant: a second point is pushed as the first one is
feed_NumberDecimals_SecondPoint(buf, c) ==
    IF c # None THEN
        IF is_digit(c) THEN Out(NumberDecimals, Append(buf, c), OkNone)
        ELSE IF c = "." THEN Out(NumberPoint, Append(buf, c), OkNone)
        ELSE IF c = " " THEN
            LET d == drain_buffer_to_decimal(buf)
            IN  Out(WhitespaceBeforeOperator, d.buffer, OkSome(TokenNumber(d.number)))
        ELSE IF get_operator_kind(c) # None THEN
            LET d == drain_buffer_to_decimal(buf)
            IN  Out(Operator(get_operator_kind(c)), d.buffer, OkSome(TokenNumber(d.number)))
        ELSE Out(Error, buf, Err(UnexpectedCharacter(c)))
    ELSE
        LET d == drain_buffer_to_decimal(buf)
        IN  Out(End, d.buffer, OkSome(TokenNumber(d.number)))

\* variant: end-of-input returns the number but the state is not set to End
feed_NumberDecimals_NoEnd(buf, c) ==
    IF c # None THEN
        IF is_digit(c) THEN Out(NumberDecimals, Append(buf, c), OkNone)
        ELSE IF c = " " THEN
            LET d == drain_buffer_to_decimal(buf)
            IN  Out(WhitespaceBeforeOperator, d.buffer, OkSome(TokenNumber(d.number)))
        ELSE IF get_operator_kind(c) # None THEN
            LET d == drain_buffer_to_decimal(buf)
            IN  Out(Operator(get_operator_kind(c)), d.buffer, OkSome(TokenNumber(d.number)))
        ELSE Out(Error, buf, Err(UnexpectedCharacter(c)))
    ELSE
        LET d == drain_buffer_to_decimal(buf)
        IN  Out(NumberDecimals, d.buffer, OkSome(TokenNumber(d.number)))

feed_NumberDecimals(buf, c) ==
    IF c # None THEN
        IF is_digit(c) THEN Out(NumberDecimals, Append(buf, c), OkNone)
        ELSE IF c = " " THEN
            LET d == drain_buffer_to_decimal(buf)
            IN  Out(WhitespaceBeforeOperator, d.buffer, OkSome(TokenNumber(d.number)))
        ELSE IF get_operator_kind(c) # None THEN
            LET d == drain_buffer_to_decimal(buf)
            IN  Out(Operator(get_operator_kind(c)), d.buffer, OkSome(TokenNumber(d.number)))
        ELSE Out(Error, buf, Err(UnexpectedCharacter(c)))
    ELSE
        LET d == drain_buffer_to_decimal(buf)
        IN  Out(End, d.buffer, OkSome(TokenNumber(d.number)))

\* variant: end-of-input after the spaces that follow a number is an error
feed_WhitespaceBeforeOperator_RejectEOI(buf, c) ==
    IF c # None THEN
        IF c = " " THEN Out(WhitespaceBeforeOperator, buf, OkSome(TokenWhitespace))
        ELSE IF get_operator_kind(c) # None THEN
            Out(Operator(get_operator_kind(c)), buf, OkSome(TokenWhitespace))
        ELSE Out(Error, buf, Err(UnexpectedCharacter(c)))
    ELSE Out(Error, buf, Err(UnexpectedEOI))

\* variant: a digit after the spaces that follow a number starts a number
feed_WhitespaceBeforeOperator_AcceptDigit(buf, c) ==
    IF c # None THEN
        IF c = " " THEN Out(WhitespaceBeforeOperator, buf, OkSome(TokenWhitespace))
        ELSE IF get_operator_kind(c) # None THEN
            Out(Operator(get_operator_kind(c)), buf, OkSome(TokenWhitespace))
        ELSE IF is_digit(c) THEN
            Out(NumberIntegers, Append(buf, c), OkSome(TokenWhitespace))
        ELSE Out(Error, buf, Err(UnexpectedCharacter(c)))
    ELSE Out(End, buf, OkSome(TokenWhitespace))

\* variant: a run of spaces is collapsed, only its end emits Whitespace
feed_WhitespaceBeforeOperator_Collapse(buf, c) ==
    IF c # None THEN
        IF c = " " THEN Out(WhitespaceBeforeOperator, buf, OkNone)
        ELSE IF get_operator_kind(c) # None THEN
            Out(Operator(get_operator_kind(c)), buf, OkSome(TokenWhitespace))
        ELSE Out(Error, buf, Err(UnexpectedCharacter(c)))
    ELSE Out(End, buf, OkSome(TokenWhitespace))

feed_WhitespaceBeforeOperator(buf, c) ==
    IF c # None THEN
        IF c = " " THEN Out(WhitespaceBeforeOperator, buf, OkSome(TokenWhitespace))
        ELSE IF get_operator_kind(c) # None THEN
            Out(Operator(get_operator_kind(c)), buf, OkSome(TokenWhitespace))
        ELSE Out(Error, buf, Err(UnexpectedCharacter(c)))
    ELSE Out(End, buf, OkSome(TokenWhitespace))

\* variant: the digit after an operator is not pushed to the buffer
feed_Operator_NoPush(operator_kind, buf, c) ==
    IF c # None THEN
        IF c = " " THEN
            Out(WhitespaceAfterOperator, buf, OkSome(TokenOperator(operator_kind)))
        ELSE IF is_digit(c) THEN
            Out(NumberIntegers, buf, OkSome(TokenOperator(operator_kind)))
        ELSE Out(Error, buf, Err(UnexpectedCharacter(c)))
    ELSE Out(Error, buf, Err(UnexpectedEOI))

\* variant: a digit right after an operator emits nothing
feed_Operator_DropOnDigit(operator_kind, buf, c) ==
    IF c # None THEN
        IF c = " " THEN
            Out(WhitespaceAfterOperator, buf, OkSome(TokenOperator(operator_kind)))
        ELSE IF is_digit(c) THEN
            Out(NumberIntegers, Append(buf, c), OkNone)
        ELSE Out(Error, buf, Err(UnexpectedCharacter(c)))
    ELSE Out(Error, buf, Err(UnexpectedEOI))

\* variant: a '-' or '+' right after an operator is the sign of the number
feed_Operator_AcceptSign(operator_kind, buf, c) ==
    IF c # None THEN
        IF c = " " THEN
            Out(WhitespaceAfterOperator, buf, OkSome(TokenOperator(operator_kind)))
        ELSE IF is_digit(c) \/ c \in {"-", "+"} THEN
            Out(NumberIntegers, Append(buf, c), OkSome(TokenOperator(operator_kind)))
        ELSE Out(Error, buf, Err(UnexpectedCharacter(c)))
    ELSE Out(Error, buf, Err(UnexpectedEOI))

feed_Operator(operator_kind, buf, c) ==
    IF c # None THEN
        IF c = " " THEN
            Out(WhitespaceAfterOperator, buf, OkSome(TokenOperator(operator_kind)))
        ELSE IF is_digit(c) THEN
            Out(NumberIntegers, Append(buf, c), OkSome(TokenOperator(operator_kind)))
        ELSE Out(Error, buf, Err(UnexpectedCharacter(c)))
    ELSE Out(Error, buf, Err(UnexpectedEOI))

\* variant: a number after the spaces starts over from the first state
feed_WhitespaceAfterOperator_Restart(buf, c) ==
    IF c # None THEN
        IF c = " " THEN Out(WhitespaceAfterOperator, buf, OkSome(TokenWhitespace))
        ELSE IF is_digit(c) THEN
            Out(Initial, buf, OkSome(TokenWhitespace))
        ELSE Out(Error, buf, Err(UnexpectedCharacter(c)))
    ELSE Out(Error, buf, Err(UnexpectedEOI))

\* variant: end-of-input is accepted as after the first whitespace
feed_WhitespaceAfterOperator_AcceptEOI(buf, c) ==
    IF c # None THEN
        IF c = " " THEN Out(WhitespaceAfterOperator, buf, OkSome(TokenWhitespace))
        ELSE IF is_digit(c) THEN
            Out(NumberIntegers, Append(buf, c), OkSome(TokenWhitespace))
        ELSE Out(Error, buf, Err(UnexpectedCharacter(c)))
    ELSE Out(End, buf, OkSome(TokenWhitespace))

feed_WhitespaceAfterOperator(buf, c) ==
    IF c # None THEN
        IF c = " " THEN Out(WhitespaceAfterOperator, buf, OkSome(TokenWhitespace))
        ELSE IF is_digit(c) THEN
            Out(NumberIntegers, Append(buf, c), OkSome(TokenWhitespace))
        ELSE Out(Error, buf, Err(UnexpectedCharacter(c)))
    ELSE Out(Error, buf, Err(UnexpectedEOI))

\* Feed a character `Some(char)` to the lexer, or feed `None` for end of string.
feed(st, buf, c) ==
    CASE st.tag \in {"End", "Error"} -> feed_Terminal(st, buf, c)
      [] st.tag = "Initial" -> feed_Initial(buf, c)
      [] st.tag = "NumberIntegers" -> feed_NumberIntegers(buf, c)
      [] st.tag = "NumberPoint" -> feed_NumberPoint(buf, c)
      [] st.tag = "NumberDecimals" -> feed_NumberDecimals(buf, c)
      [] st.tag = "WhitespaceBeforeOperator" -> feed_WhitespaceBeforeOperator(buf, c)
      [] st.tag = "Operator" -> feed_Operator(st.kind, buf, c)
      [] st.tag = "WhitespaceAfterOperator" -> feed_WhitespaceAfterOperator(buf, c)

(* --------------------- a direct caller of the Lexer --------------------- *)

NoOrig == [nums |-> <<>>, ops |-> <<>>, gaps |-> <<>>]

NoResult == [r |-> "None"]

\* Lexer::new(), and the history of the feed calls made on it: fed[i] is
\* the argument of the i-th call and rets[i] what it returned
LexerNew ==
    /\ state = Initial
    /\ buffer = <<>>
    /\ fed = <<>>
    /\ rets = <<>>

\* a second Lexer::new(), with the history of the calls made on it
PeerNew == [state |-> Initial, buffer |-> <<>>, fed |-> <<>>, rets |-> <<>>]

InitCaller ==
    /\ LexerNew
    /\ peer = PeerNew
    /\ input = <<>>
    /\ orig = NoOrig
    /\ chars = <<>>
    /\ tokens = <<>>
    /\ pc = "caller"
    /\ result = NoResult

\* one call lexer.feed(c)
Call(c) ==
    LET o == feed(state, buffer, c)
    IN  /\ state' = o.state
        /\ buffer' = o.buffer
        /\ fed' = Append(fed, c)
        /\ rets' = Append(rets, o.ret)

FeedChar(c) ==
    /\ pc = "caller"
    /\ Len(fed) < MaxFeeds
    /\ Call(c)
    /\ UNCHANGED <<input, orig, chars, tokens, pc, result, peer>>

FeedEOI ==
    /\ pc = "caller"
    /\ Len(fed) < MaxFeeds
    /\ Call(None)
    /\ UNCHANGED <<input, orig, chars, tokens, pc, result, peer>>


(* --------------------------- tokenize driver ---------------------------- *)

\* every string over Alphabet of length at most n
RECURSIVE Strings(_)
Strings(n) ==
    IF n = 0 THEN {<<>>}
    ELSE LET shorter == Strings(n - 1)
         IN  shorter \cup {Append(s, c) : s \in {t \in shorter : Len(t) = n - 1}, c \in Alphabet}

\* the inputs of the error tests of src/src/tests.rs, and "1 0.2" and "012"
\* of those of src/src/ported_tests.rs, character by character
NamedInputs ==
    { <<"1", " ", "0", ".", "2">>,
      <<"0", "1", "2">>,
      <<"4", "3", ".">>,
      <<"4", "3", ".", ".", "4", "6", "4">>,
      <<"4", "3", ".", " ", "+", " ", "9", "6">>,
      <<"4", "3", ".", "0", " ", "+", " ", "9", "6", ".">>,
      <<"4", "3", ".", "0", " ", " ", " ">>,
      <<"4", "3", " ", " ">>,
      <<"4", "3", " ", "+", " ", " ">>,
      <<"4", "3", ".", "0", " ", " ", " ", "/">>,
      <<"4", "3", ".", "0", " ", " ", " ", "d", "f", "g", "d", " ">>,
      <<"4", "3", " ", " ", "f", " ", " ">>,
      <<"4", "3", " ", "+", " ", "+", " ", "8", "2">>,
      <<"4", "3", " ", "-", " ", "4", "3", " ">>,
      <<"7", "6", ".", "5", ".", "3", "4", "4", " ">> }

\* a Number token of value m / 10^e with the way it is written, and an
\* Operator token with its character
Num(text, m, e) == [text |-> text, token |-> TokenNumber([m |-> m, e |-> e])]
Op(text, kind) == [text |-> text, token |-> TokenOperator(kind)]

\* the Number tokens of a rendered well-formed expression, each with the
\* way it is written: digits with an optional '.digits' part
RenderedNumbers ==
    { Num(<<"1", "0">>, 10, 0), Num(<<"0", ".", "1">>, 1, 1) }

\* the Operator tokens of a rendered well-formed expression
RenderedOperators ==
    { Op("-", "Subtract"), Op("+", "Plus"), Op("/", "Divide"), Op("*", "Multiply") }

\* the success tests of src/src/tests.rs, each input with the Number and
\* Operator tokens the test expects: "16.2400 + 00", "0016/0.5", "00.050",
\* "3463    *2" and "3463.0-   2.0"
TestExpressions ==
    { [nums |-> << Num(<<"1", "6", ".", "2", "4", "0", "0">>, 1624, 2),
                   Num(<<"0", "0">>, 0, 0) >>,
       ops |-> << Op("+", "Plus") >>, gaps |-> <<1, 1>>],
      [nums |-> << Num(<<"0", "0", "1", "6">>, 16, 0), Num(<<"0", ".", "5">>, 5, 1) >>,
       ops |-> << Op("/", "Divide") >>, gaps |-> <<0, 0>>],
      [nums |-> << Num(<<"0", "0", ".", "0", "5", "0">>, 5, 2) >>,
       ops |-> <<>>, gaps |-> <<>>],
      [nums |-> << Num(<<"3", "4", "6", "3">>, 3463, 0), Num(<<"2">>, 2, 0) >>,
       ops |-> << Op("*", "Multiply") >>, gaps |-> <<4, 0>>],
      [nums |-> << Num(<<"3", "4", "6", "3", ".", "0">>, 3463, 0),
                   Num(<<"2", ".", "0">>, 2, 0) >>,
       ops |-> << Op("-", "Subtract") >>, gaps |-> <<0, 3>>] }

\* a well-formed expression with n operators: n + 1 numbers, n operators
\* and the number of spaces in each of the 2n places between adjacent tokens
WellFormed(n) ==
    { [nums |-> ns, ops |-> os, gaps |-> gs] :
        ns \in [1..(n + 1) -> RenderedNumbers],
        os \in [1..n -> RenderedOperators],
        gs \in [1..(2 * n) -> 0..MaxGap] }

Spaces(k) == [i \in 1..k |-> " "]

\* the text of a well-formed expression from its i-th number on
RECURSIVE RenderFrom(_, _)
RenderFrom(w, i) ==
    IF i > Len(w.ops) THEN w.nums[i].text
    ELSE w.nums[i].text \o Spaces(w.gaps[2 * i - 1]) \o <<w.ops[i].text>>
           \o Spaces(w.gaps[2 * i]) \o RenderFrom(w, i + 1)

Render(w) == RenderFrom(w, 1)

\* let mut tokens = Vec::new(); let mut lexer = Lexer::new();
\* string.chars().into_iter() is the iterator the loop consumes
TokenizeEntry(string) ==
    /\ LexerNew
    /\ peer = PeerNew
    /\ input = string
    /\ chars = string
    /\ tokens = <<>>
    /\ pc = "feed_chars"
    /\ result = NoResult

InitTokenize ==
    \/ /\ orig = NoOrig
       /\ \E string \in Strings(MaxLen) \cup NamedInputs : TokenizeEntry(string)
    \/ /\ orig \in UNION {WellFormed(n) : n \in 0..MaxOps} \cup TestExpressions
       /\ TokenizeEntry(Render(orig))

\* tokens.push(token) when the call returned Some(token)
Push(toks, ret) == IF ret.some THEN Append(toks, ret.tok) ELSE toks

\* variant: the loop drops a failed call and goes on
TokenizeFeedChar_IgnoreErr ==
    /\ pc = "feed_chars"
    /\ chars # <<>>
    /\ Call(Head(chars))
    /\ chars' = Tail(chars)
    /\ LET ret == Last(rets')
       IN  tokens' = IF ret.r = "Ok" THEN Push(tokens, ret) ELSE tokens
    /\ UNCHANGED <<pc, result, input, orig, peer>>

\* one iteration of the for loop: feed the next character; `?` returns the
\* error of a failed call from tokenize
TokenizeFeedChar ==
    /\ pc = "feed_chars"
    /\ chars # <<>>
    /\ Call(Head(chars))
    /\ chars' = Tail(chars)
    /\ LET ret == Last(rets')
       IN  IF ret.r = "Err"
           THEN /\ pc' = "done"
                /\ result' = Err(ret.err)
                /\ UNCHANGED tokens
           ELSE /\ tokens' = Push(tokens, ret)
                /\ UNCHANGED <<pc, result>>
    /\ UNCHANGED <<input, orig, peer>>

\* variant: the loop is followed by the assertion, end-of-input is not fed
TokenizeFeedEOI_NoFeed ==
    /\ pc = "feed_chars"
    /\ chars = <<>>
    /\ pc' = "assert"
    /\ UNCHANGED <<state, buffer, fed, rets, input, orig, chars, tokens, result, peer>>

\* after the loop: feed end-of-input, again with `?`
TokenizeFeedEOI ==
    /\ pc = "feed_chars"
    /\ chars = <<>>
    /\ Call(None)
    /\ LET ret == Last(rets')
       IN  IF ret.r = "Err"
           THEN /\ pc' = "done"
                /\ result' = Err(ret.err)
                /\ UNCHANGED tokens
           ELSE /\ tokens' = Push(tokens, ret)
                /\ pc' = "assert"
                /\ UNCHANGED result
    /\ UNCHANGED <<input, orig, chars, peer>>

\* assert_eq!(lexer.is_ended(), true); Ok(tokens)
TokenizeAssert ==
    /\ pc = "assert"
    /\ IF is_ended(state) = TRUE
       THEN /\ pc' = "done"
            /\ result' = [r |-> "Ok", tokens |-> tokens]
       ELSE /\ pc' = "panicked"
            /\ UNCHANGED result
    /\ UNCHANGED <<state, buffer, fed, rets, input, orig, chars, tokens, peer>>

(* ---------------------------- specification ---------------------------- *)

\* the lexer is driven either by a direct caller of feed or by tokenize
Init == InitCaller \/ InitTokenize

Next ==
    \/ \E c \in Alphabet : FeedChar(c)
    \/ FeedEOI
    \/ TokenizeFeedChar
    \/ TokenizeFeedEOI
    \/ TokenizeAssert

Spec == Init /\ [][Next]_vars

(* ------------------- two passes, each on its own Lexer ------------------ *)

\* the characters the two interleaved passes are drawn from: a digit, the
\* point, the space, an operator and one other
PassAlphabet == {"1", ".", " ", "+", "f"}

InitPasses ==
    /\ LexerNew
    /\ peer = PeerNew
    /\ input = <<>>
    /\ orig = NoOrig
    /\ chars = <<>>
    /\ tokens = <<>>
    /\ pc = "passes"
    /\ result = NoResult

\* the first pass calls lexer.feed(c) on its Lexer
PassFeed(c) ==
    /\ pc = "passes"
    /\ Len(fed) + Len(peer.fed) < MaxFeeds
    /\ Call(c)
    /\ UNCHANGED <<input, orig, chars, tokens, pc, result, peer>>

\* variant: the two instances share one buffer
PeerFeed_SharedBuffer(c) ==
    /\ pc = "passes"
    /\ Len(fed) + Len(peer.fed) < MaxFeeds
    /\ LET o == feed(peer.state, buffer, c)
       IN  /\ peer' = [state |-> o.state, buffer |-> o.buffer,
                       fed |-> Append(peer.fed, c), rets |-> Append(peer.rets, o.ret)]
           /\ buffer' = o.buffer
    /\ UNCHANGED <<state, fed, rets, input, orig, chars, tokens, pc, result>>

\* the second pass calls feed(c) on its own Lexer
PeerFeed(c) ==
    /\ pc = "passes"
    /\ Len(fed) + Len(peer.fed) < MaxFeeds
    /\ LET o == feed(peer.state, peer.buffer, c)
       IN  peer' = [state |-> o.state, buffer |-> o.buffer,
                    fed |-> Append(peer.fed, c), rets |-> Append(peer.rets, o.ret)]
    /\ UNCHANGED <<state, buffer, fed, rets, input, orig, chars, tokens, pc, result>>

NextPasses ==
    \/ \E c \in PassAlphabet \cup {None} : PassFeed(c)
    \/ \E c \in PassAlphabet \cup {None} : PeerFeed(c)

SpecPasses == InitPasses /\ [][NextPasses]_vars

(* ------------------------- tokenize run to its end ---------------------- *)

\* every string over the characters of cs of length at most n
RECURSIVE StringsOver(_, _)
StringsOver(cs, n) ==
    IF n = 0 THEN {<<>>}
    ELSE LET shorter == StringsOver(cs, n - 1)
         IN  shorter \cup {Append(s, c) : s \in {t \in shorter : Len(t) = n - 1}, c \in cs}

\* tokenize called on a string with one character of each class feed
\* tells apart, or on an input of the error tests
InitRun ==
    /\ orig = NoOrig
    /\ \E string \in StringsOver(PassAlphabet, MaxLen) \cup NamedInputs : TokenizeEntry(string)

NextRun ==
    \/ TokenizeFeedChar
    \/ TokenizeFeedEOI
    \/ TokenizeAssert

\* tokenize is straight-line code around one loop and feed never blocks:
\* a call that has a next statement executes it
SpecRun == InitRun /\ [][NextRun]_vars /\ WF_vars(NextRun)

(* ------------------------- claims: vocabulary --------------------------- *)

Terminal(st) == st \in {End, Error}

\* the step is one call of feed
IsFeed == Len(fed') = Len(fed) + 1

\* the argument and the returned value of the call the step makes
Arg == Last(fed')
Ret == Last(rets')

EverErr == \E i \in DOMAIN rets : rets[i].r = "Err"

EverEOIOk == \E i \in DOMAIN rets : fed[i] = None /\ rets[i].r = "Ok"

IsToken(ret, kinds) == ret.r = "Ok" /\ ret.some /\ ret.tok.t \in kinds

(* C1: once a feed call has returned an error, or feed(None) has returned  *)
(* successfully, every later feed call returns Ok(None) and leaves the     *)
(* state and the buffer unchanged.                                         *)
C1_TerminalAbsorbing ==
    [][ (IsFeed /\ (EverErr \/ EverEOIOk))
            => (Ret = OkNone /\ state' = state /\ buffer' = buffer) ]_vars

\* end-of-input was accepted and a character has been fed afterwards
C1_Witness ==
    /\ Len(fed) >= 3
    /\ fed[Len(fed) - 1] = None
    /\ rets[Len(fed) - 1].r = "Ok"
    /\ rets[Len(fed) - 1].some
    /\ Last(fed) # None
    /\ state = End

(* C2: when tokenize gets past both `?`, the lexer state is exactly End:   *)
(* the assertion never fails and tokenize returns Ok(tokens) or Err(e).    *)
C2_AssertNeverFails ==
    /\ pc = "assert" => state = End
    /\ pc # "panicked"
    /\ pc = "done" => result.r \in {"Ok", "Err"}

C2_Witness == pc = "assert" /\ Len(input) >= 3 /\ Last(input) = " "

IsNotWhitespace(tok) == tok.t # "Whitespace"

NonWhitespace(toks) == SelectSeq(toks, IsNotWhitespace)

CountSpaces(s) == Cardinality({i \in 1..Len(s) : s[i] = " "})

\* the Number/Operator sequence a well-formed expression was rendered from
OrigTokens(w) ==
    [i \in 1..(2 * Len(w.ops) + 1) |->
        IF i % 2 = 1 THEN w.nums[(i + 1) \div 2].token ELSE w.ops[i \div 2].token]

TokenShape(toks) ==
    [i \in 1..Len(toks) |->
        CASE toks[i].t = "Number" -> "N"
          [] toks[i].t = "Operator" -> "O"
          [] toks[i].t = "Whitespace" -> " "]

\* the class of each lexeme of a text: every maximal run of digits and
\* points (and other characters) is one N, every operator character one O
\* and every space a space
RECURSIVE InputShape(_)
InputShape(s) ==
    IF s = <<>> THEN <<>>
    ELSE LET c == Last(s)
             rest == InputShape(Front(s))
         IN  IF c = " " THEN Append(rest, " ")
             ELSE IF c \in OperatorChars THEN Append(rest, "O")
             ELSE IF Len(s) > 1 /\ s[Len(s) - 1] \notin OperatorChars \cup {" "}
                  THEN rest
                  ELSE Append(rest, "N")

KindOfChar ==
    [c \in OperatorChars |->
        IF c = "-" THEN "Subtract" ELSE IF c = "+" THEN "Plus"
        ELSE IF c = "/" THEN "Divide" ELSE "Multiply"]

\* the call with argument c that returned ret consumed an operator character
ConsumedOperator(c, ret) == c \in OperatorChars /\ ret.r = "Ok" /\ ret.some

\* the last call made so far consumed an operator character
HoldsOperator == fed # <<>> /\ ConsumedOperator(Last(fed), Last(rets))

(* C5: the call that consumes an operator character returns the pending   *)
(* Number or Whitespace token, never an Operator token; Operator(kind) is  *)
(* returned by the next call, and only when its input is a space or a      *)
(* digit, with the kind of the consumed character; otherwise the held      *)
(* operator is never emitted.                                              *)
C5_OperatorHeldOneStep ==
    [][ IsFeed =>
          /\ ConsumedOperator(Arg, Ret) => Ret.tok.t \in {"Number", "Whitespace"}
          /\ (HoldsOperator /\ (Arg = " " \/ Arg \in Digits))
                 => Ret = OkSome(TokenOperator(KindOfChar[Last(fed)]))
          /\ (HoldsOperator /\ ~(Arg = " " \/ Arg \in Digits)) => Ret.r = "Err"
          /\ IsToken(Ret, {"Operator"}) => HoldsOperator ]_vars

\* an operator was consumed after spaces and emitted by the call of a digit
C5_Witness ==
    /\ Len(fed) >= 4
    /\ fed[Len(fed) - 2] = " "
    /\ fed[Len(fed) - 1] \in OperatorChars
    /\ Last(fed) \in Digits
    /\ IsToken(Last(rets), {"Operator"})

\* the results of feeding every element of cs, one after the other, to a
\* lexer in state st with buffer buf, whatever each call returns
RECURSIVE FeedAll(_, _, _)
FeedAll(st, buf, cs) ==
    IF cs = <<>> THEN <<>>
    ELSE LET o == feed(st, buf, Head(cs))
         IN  <<o.ret>> \o FeedAll(o.state, o.buffer, Tail(cs))

\* the index of the first failing call among rs, 0 when none fails
FirstErr(rs) ==
    IF \A i \in DOMAIN rs : rs[i].r = "Ok" THEN 0
    ELSE CHOOSE i \in DOMAIN rs :
            rs[i].r = "Err" /\ \A j \in 1..(i - 1) : rs[j].r = "Ok"

(* C6: when some feed call of the left-to-right scan fails, tokenize       *)
(* returns exactly the error of the first failing call, makes no call      *)
(* after it and returns no tokens.                                         *)
C6_FirstErrorWins ==
    pc # "caller" =>
        LET all == Append(input, None)
            rs == FeedAll(Initial, <<>>, all)
            k == FirstErr(rs)
        IN  k > 0 =>
              /\ Len(fed) <= k
              /\ fed = SubSeq(all, 1, Len(fed))
              /\ Len(fed) < k => (pc = "feed_chars" /\ result = NoResult)
              /\ Len(fed) = k => (pc = "done" /\ result = Err(rs[k].err))

\* tokenize has returned the error of a character that further invalid
\* characters follow
C6_Witness ==
    /\ pc = "done"
    /\ result.r = "Err"
    /\ Len(fed) >= 2
    /\ Len(input) >= Len(fed) + 2
    /\ input[Len(fed) + 1] = "f"

ErrCount(rs) == Cardinality({i \in DOMAIN rs : rs[i].r = "Err"})

(* C7: a feed call returns Err if and only if that call moves the lexer    *)
(* from a non-terminal state to Error, and at most one call of a Lexer     *)
(* returns Err.                                                            *)
C7_ErrorsTerminal ==
    [][ IsFeed =>
          /\ (Ret.r = "Err") <=> (~Terminal(state) /\ state' = Error)
          /\ ErrCount(rets') <= 1 ]_vars

\* a call failed and invalid input was fed afterwards
C7_Witness ==
    /\ Len(fed) >= 4
    /\ rets[2].r = "Err"
    /\ fed[3] = None
    /\ fed[4] = "f"
    /\ state = Error

\* the inputs the claim names: "", "43.0   /" and "43 +  "
C8_Examples ==
    { <<>>,
      <<"4", "3", ".", "0", " ", " ", " ", "/">>,
      <<"4", "3", " ", "+", " ", " ">> }

C9_Examples ==
    { <<"4", "3", ".">>,
      <<"4", "3", ".", ".", "4", "6", "4">>,
      <<"4", "3", ".", " ", "+", " ", "9", "6">>,
      <<"4", "3", ".", "0", " ", "+", " ", "9", "6", ".">> }

(* C9: in NumberPoint a digit returns Ok(None) and moves to NumberDecimals *)
(* and anything else returns ExpectedDigitAfterPoint, which no other state *)
(* returns; the named inputs fail with ExpectedDigitAfterPoint.            *)
C9_DigitAfterPoint ==
    [][ IsFeed =>
          /\ (state = NumberPoint /\ Arg \in Digits)
                 => (Ret = OkNone /\ state' = NumberDecimals)
          /\ (state = NumberPoint /\ Arg \notin Digits)
                 => Ret = Err(ExpectedDigitAfterPoint)
          /\ state # NumberPoint => Ret # Err(ExpectedDigitAfterPoint)
          /\ (pc' = "done" /\ input \in C9_Examples)
                 => result' = Err(ExpectedDigitAfterPoint) ]_vars

\* a second point right after the first was rejected
C9_Witness ==
    /\ Len(fed) >= 3
    /\ fed[Len(fed) - 1] = "."
    /\ Last(fed) = "."
    /\ Last(rets) = Err(ExpectedDigitAfterPoint)
    /\ state = Error

\* digits with an optional '.digits' part
IsNumberText(s) ==
    /\ s # <<>>
    /\ IsFloatLiteral(s)
    /\ s[1] \in Digits
    /\ Last(s) \in Digits

\* a number followed only by one or more spaces
IsNumberThenSpaces(s) ==
    \E k \in 1..(Len(s) - 1) :
        /\ IsNumberText(SubSeq(s, 1, k))
        /\ \A i \in (k + 1)..Len(s) : s[i] = " "

(* C10: an input consisting of a number followed only by one or more       *)
(* trailing spaces makes tokenize return Err(UnexpectedEOI).               *)
C10_TrailingSpacesRejected ==
    (pc = "done" /\ IsNumberThenSpaces(input)) => result = Err(UnexpectedEOI)

\* the n-th power of ten
RECURSIVE Pow10(_)
Pow10(n) == IF n = 0 THEN 1 ELSE 10 * Pow10(n - 1)

\* the digits of a text read from the left as one integer, starting from acc
RECURSIVE IntOf(_, _)
IntOf(s, acc) ==
    IF s = <<>> THEN acc
    ELSE IF Head(s) = "." THEN IntOf(Tail(s), acc)
    ELSE IntOf(Tail(s), acc * 10 + DigitVal(Head(s)))

\* the digits a text D.F has after its point
FracDigits(s) ==
    IF \E i \in 1..Len(s) : s[i] = "."
    THEN Len(s) - (CHOOSE i \in 1..Len(s) : s[i] = ".")
    ELSE 0

\* v is the decimal value of the text D or D.F
IsValueOf(v, s) ==
    /\ v.m >= 0
    /\ v.e >= 0
    /\ v.m * Pow10(FracDigits(s)) = IntOf(s, 0) * Pow10(v.e)

\* the longest suffix of s made of digits and points
RECURSIVE TrailingRun(_)
TrailingRun(s) ==
    IF s = <<>> \/ Last(s) \notin Digits \cup {"."} THEN <<>>
    ELSE Append(TrailingRun(Front(s)), Last(s))

\* the number and the spaces of a text that is a number followed by spaces
NumberPart(s) == SelectSeq(s, LAMBDA c : c # " ")

C12_SpaceAfterSecondOperand ==
    (pc = "done" /\ input = <<"4", "3", " ", "-", " ", "4", "3", " ">>)
        => result = Err(UnexpectedCharacter(" "))

CountTokens(toks, kind) == Cardinality({i \in 1..Len(toks) : toks[i].t = kind})

CountShape(shape, class) == Cardinality({i \in 1..Len(shape) : shape[i] = class})

\* the tokens tokenize returns for the texts the claim names
C15_Examples ==
    { [text |-> <<"0", "0", "1", "6">>, v |-> [m |-> 16, e |-> 0]],
      [text |-> <<"0", "0", ".", "0", "5", "0">>, v |-> [m |-> 5, e |-> 2]],
      [text |-> <<"1", "6", ".", "2", "4", "0", "0">>, v |-> [m |-> 1624, e |-> 2]],
      [text |-> <<"0", "0">>, v |-> [m |-> 0, e |-> 0]] }

IsZeroLedInteger(s) ==
    /\ Len(s) >= 2
    /\ s[1] = "0"
    /\ s[2] \in Digits \ {"0"}
    /\ \A i \in 1..Len(s) : s[i] \in Digits

\* a zero-led integer as the only number, or as the second operand, of an
\* otherwise valid expression
HasZeroLedInteger(s) ==
    \/ IsZeroLedInteger(s)
    \/ /\ Len(s) >= 4
       /\ s[1] \in Digits
       /\ s[2] \in OperatorChars
       /\ IsZeroLedInteger(SubSeq(s, 3, Len(s)))

(* C16: an integer written with a leading zero followed by further digits  *)
(* ("012"), at a number position of an otherwise valid expression, makes   *)
(* tokenize return an IncorrectNumber error instead of a token list.       *)
C16_LeadingZeroRejected ==
    (pc = "done" /\ HasZeroLedInteger(input))
        => (result.r = "Err" /\ result.err.e = "IncorrectNumber")

\* a Lexer fed every element of cs on its own: its final state and buffer
\* and the results it returned
RECURSIVE RunAlone(_, _, _, _)
RunAlone(st, buf, cs, rs) ==
    IF cs = <<>> THEN [state |-> st, buffer |-> buf, rets |-> rs]
    ELSE LET o == feed(st, buf, Head(cs))
         IN  RunAlone(o.state, o.buffer, Tail(cs), Append(rs, o.ret))

Alone(cs) == RunAlone(Initial, <<>>, cs, <<>>)

(* C17: when the feed calls of two passes, each on its own Lexer, are       *)
(* interleaved in any order, each Lexer returns the results and reaches the *)
(* state it does when its pass runs alone, and a feed on one instance never *)
(* changes the state or the buffer of the other.                            *)
C17_InstancesIndependent ==
    [][ /\ rets' = Alone(fed').rets
        /\ state' = Alone(fed').state
        /\ buffer' = Alone(fed').buffer
        /\ peer'.rets = Alone(peer'.fed).rets
        /\ peer'.state = Alone(peer'.fed).state
        /\ peer'.buffer = Alone(peer'.fed).buffer
        /\ peer'.fed # peer.fed => (state' = state /\ buffer' = buffer)
        /\ fed' # fed => (peer'.state = peer.state /\ peer'.buffer = peer.buffer) ]_vars

\* both instances have been fed: one is in the middle of a number, the
\* other has failed
C17_Witness ==
    /\ pc = "passes"
    /\ Len(fed) >= 2
    /\ Len(peer.fed) >= 2
    /\ state = NumberPoint
    /\ buffer = <<"1", ".">>
    /\ peer.state = Error
    /\ peer.buffer = <<"1">>

\* no call made so far was given end-of-input
NoEOIFed == \A i \in DOMAIN fed : fed[i] # None

(* C18 as stated: after any sequence of feed(Some(c)) calls, end-of-input   *)
(* never fed, the state is neither End nor Error and is_ended() is false.   *)
C18_NonTerminalWithoutEOI ==
    NoEOIFed => (state # End /\ state # Error /\ ~is_ended(state))

(* C18 as amended: after any sequence of feed(Some(c)) calls, end-of-input  *)
(* never fed, the state is not End and is_ended() is false, and the state   *)
(* is Error exactly when one of the calls returned an error.                *)
C18_NoEndWithoutEOI ==
    NoEOIFed =>
        /\ state # End
        /\ ~is_ended(state)
        /\ (state = Error) <=> EverErr

\* characters only were fed, one was rejected and more were fed after it
C18_Witness ==
    /\ NoEOIFed
    /\ Len(fed) >= 3
    /\ rets[2].r = "Err"
    /\ state = Error

NumberStates == {"NumberIntegers", "NumberPoint", "NumberDecimals"}

(* C19: the buffer is emptied in exactly the feed calls that return a       *)
(* Number token; it is empty whenever the state is Initial,                 *)
(* WhitespaceBeforeOperator, WhitespaceAfterOperator, Operator(kind) or End *)
(* and non-empty whenever the state is NumberIntegers, NumberPoint or       *)
(* NumberDecimals; an error raised from a number state leaves the buffered  *)
(* characters in place.                                                     *)
C19_BufferDiscipline ==
    [][ IsFeed =>
          /\ IsToken(Ret, {"Number"}) <=> (buffer # <<>> /\ buffer' = <<>>)
          /\ ~IsToken(Ret, {"Number"}) => (buffer' = buffer \/ buffer' = Append(buffer, Arg))
          /\ state'.tag \in {"Initial", "WhitespaceBeforeOperator",
                             "WhitespaceAfterOperator", "Operator", "End"}
                 => buffer' = <<>>
          /\ state'.tag \in NumberStates => buffer' # <<>>
          /\ (state.tag \in NumberStates /\ Ret.r = "Err")
                 => (buffer' = buffer /\ buffer' # <<>>) ]_vars

\* a number was emitted, and a later number then failed with its characters
\* left in the buffer
C19_Witness ==
    /\ state = Error
    /\ buffer # <<>>
    /\ \E i \in DOMAIN rets : IsToken(rets[i], {"Number"})
    /\ Last(rets).r = "Err"

\* every input of feed but the point
InputsButPoint == ((Alphabet \cup Digits) \ {"."}) \cup {None}

\* the token kind, or the error, a call returned
ResultKind(ret) ==
    IF ret.r = "Err" THEN <<"Err", ret.err>>
    ELSE IF ret.some THEN <<"Ok", ret.tok.t>>
    ELSE <<"Ok", "None">>

CountPoints(s) == Cardinality({i \in 1..Len(s) : s[i] = "."})

(* C20 as stated: for every input other than '.', feed from NumberDecimals  *)
(* returns the same kind of result and moves to the same next state as feed *)
(* from NumberIntegers with the same buffer.                                *)
C20_SameNextState ==
    state.tag \in {"NumberIntegers", "NumberDecimals"} =>
        \A c \in InputsButPoint :
            LET a == feed(NumberIntegers, buffer, c)
                b == feed(NumberDecimals, buffer, c)
            IN  ResultKind(a.ret) = ResultKind(b.ret) /\ a.state = b.state

(* C20 as amended: for every input other than '.', feed from NumberDecimals *)
(* returns the same result and leaves the same buffer as feed from          *)
(* NumberIntegers with the same buffer, and moves to the same next state    *)
(* except on a digit, where each stays in its own state; on '.'             *)
(* NumberIntegers pushes it and moves to NumberPoint while NumberDecimals   *)
(* returns UnexpectedCharacter('.'), "76.5.344 " fails with it, and no      *)
(* drained buffer contains more than one point.                             *)
C20_DecimalsLikeIntegers ==
    [][ /\ state.tag \in {"NumberIntegers", "NumberDecimals"} =>
              /\ \A c \in InputsButPoint :
                    LET a == feed(NumberIntegers, buffer, c)
                        b == feed(NumberDecimals, buffer, c)
                    IN  /\ a.ret = b.ret
                        /\ a.buffer = b.buffer
                        /\ IF c \in Digits
                           THEN a.state = NumberIntegers /\ b.state = NumberDecimals
                           ELSE a.state = b.state
              /\ feed(NumberIntegers, buffer, ".")
                     = Out(NumberPoint, Append(buffer, "."), OkNone)
              /\ feed(NumberDecimals, buffer, ".")
                     = Out(Error, buffer, Err(UnexpectedCharacter(".")))
        /\ (IsFeed /\ state = NumberDecimals /\ Arg = ".")
              => (Ret = Err(UnexpectedCharacter(".")) /\ state' = Error)
        /\ (IsFeed /\ IsToken(Ret, {"Number"})) => CountPoints(buffer) <= 1
        /\ (pc' = "done" /\ input = <<"7", "6", ".", "5", ".", "3", "4", "4", " ">>)
              => result' = Err(UnexpectedCharacter(".")) ]_vars

\* a second point was fed after the decimals of a number and rejected
C20_Witness ==
    /\ Len(fed) >= 4
    /\ Last(fed) = "."
    /\ fed[Len(fed) - 1] \in Digits
    /\ Last(rets) = Err(UnexpectedCharacter("."))
    /\ CountPoints(buffer) = 1
    /\ state = Error

(* C21: Initial is strictly the first state: the first feed call on a new   *)
(* Lexer leaves Initial, to NumberIntegers on a digit and to Error          *)
(* otherwise; no feed call ever moves the lexer to Initial, so the state is *)
(* Initial exactly while nothing has been fed; a digit fed in Operator or   *)
(* WhitespaceAfterOperator moves directly to NumberIntegers.                *)
C21_InitialOnlyFirst ==
    [][ /\ (state = Initial) <=> (fed = <<>>)
        /\ IsFeed =>
              /\ state' # Initial
              /\ state = Initial =>
                    state' = IF Arg \in Digits THEN NumberIntegers ELSE Error
              /\ (state.tag \in {"Operator", "WhitespaceAfterOperator"} /\ Arg \in Digits)
                    => (state' = NumberIntegers /\ buffer' = <<Arg>>) ]_vars

\* the second number of an expression has been entered after spaces
C21_Witness ==
    /\ Len(fed) >= 4
    /\ fed[Len(fed) - 2] \in OperatorChars
    /\ fed[Len(fed) - 1] = " "
    /\ Last(fed) \in Digits
    /\ state = NumberIntegers
    /\ buffer = <<Last(fed)>>

\* the calls made so far are the characters of the input in order, then
\* at most one end-of-input
FedInOrder ==
    /\ Len(fed) <= Len(input) + 1
    /\ \A i \in DOMAIN fed :
          fed[i] = IF i <= Len(input) THEN input[i] ELSE None

(* C22: tokenize terminates on every input; it feeds the characters in      *)
(* order, one call each, then end-of-input once: at most n+1 calls on an    *)
(* input of n characters, exactly n+1 when it succeeds; a call that fails   *)
(* is the last call made, so when the character at index k fails exactly    *)
(* k+1 calls were made and end-of-input was never fed.                      *)
C22_Terminates ==
    /\ <>(pc = "done")
    /\ [](pc # "panicked")
    /\ []FedInOrder
    /\ []((pc = "done" /\ result.r = "Ok") => Len(fed) = Len(input) + 1)
    /\ [](\A k \in DOMAIN rets :
             rets[k].r = "Err" =>
                 /\ pc = "done"
                 /\ result = Err(rets[k].err)
                 /\ Len(fed) = k
                 /\ k <= Len(input) => NoEOIFed)
    /\ [][ /\ IsFeed => Len(chars') + Len(fed') = Len(input) + (IF Arg = None THEN 1 ELSE 0)
           /\ pc = "feed_chars" => IsFeed ]_vars

\* tokenize returned the error of a character that is not the last one
C22_Witness ==
    /\ pc = "done"
    /\ result.r = "Err"
    /\ Len(fed) >= 2
    /\ Len(fed) < Len(input)
    /\ Last(rets).r = "Err"

\* a non-empty run of digits
IsDigits(s) == s # <<>> /\ \A i \in 1..Len(s) : s[i] \in Digits

\* digits, or digits '.' digits
IsDecimalForm(s) ==
    \/ IsDigits(s)
    \/ \E p \in 2..(Len(s) - 1) :
          /\ s[p] = "."
          /\ IsDigits(SubSeq(s, 1, p - 1))
          /\ IsDigits(SubSeq(s, p + 1, Len(s)))

(* C23: the number parse never panics: whenever drain_buffer_to_decimal is  *)
(* called, the buffer is digits or digits '.' digits, never empty and never *)
(* ending in a point, and f64::from_str(..).unwrap() succeeds; the buffer   *)
(* is digits in NumberIntegers, digits and a point in NumberPoint, digits   *)
(* '.' digits in NumberDecimals.                                            *)
C23_ParseNeverPanics ==
    [][ /\ state = NumberIntegers => IsDigits(buffer)
        /\ state = NumberPoint =>
              (buffer # <<>> /\ Last(buffer) = "." /\ IsDigits(Front(buffer)))
        /\ state = NumberDecimals => (IsDecimalForm(buffer) /\ CountPoints(buffer) = 1)
        /\ (IsFeed /\ IsToken(Ret, {"Number"})) =>
              /\ state.tag \in {"NumberIntegers", "NumberDecimals"}
              /\ buffer # <<>>
              /\ Last(buffer) # "."
              /\ IsDecimalForm(buffer)
              /\ ParseF64(buffer) # ParsePanic
              /\ Ret.tok.v = ParseF64(buffer)
              /\ Ret.tok.v # ParsePanic ]_vars

\* a number with a point has been parsed at end-of-input
C23_Witness ==
    /\ Len(fed) >= 4
    /\ Last(fed) = None
    /\ IsToken(Last(rets), {"Number"})
    /\ Last(rets).tok.v.e >= 1
    /\ state = End

\* the tokens the calls made so far have returned, in order
Emitted(rs) ==
    LET some == SelectSeq(rs, LAMBDA ret : ret.r = "Ok" /\ ret.some)
    IN  [i \in 1..Len(some) |-> some[i].tok]

\* Number, Operator, Number, ... from the first token on
Alternates(toks) ==
    \A i \in 1..Len(toks) :
        toks[i].t = IF i % 2 = 1 THEN "Number" ELSE "Operator"

(* C24: the tokens emitted so far, Whitespace removed, alternate Number,    *)
(* Operator, Number, ... from a Number on, and the first token emitted is a *)
(* Number; when tokenize returns Ok(tokens), tokens are the tokens emitted, *)
(* they end with a Number once Whitespace is removed, and there is exactly  *)
(* one more Number than Operator.                                           *)
C24_TokensAlternate ==
    LET em == Emitted(rets)
        nw == NonWhitespace(em)
    IN  /\ Alternates(nw)
        /\ em # <<>> => em[1].t = "Number"
        /\ pc \in {"feed_chars", "assert"} => tokens = em
        /\ (pc = "done" /\ result.r = "Ok") =>
              /\ result.tokens = em
              /\ nw # <<>>
              /\ Last(nw).t = "Number"
              /\ CountTokens(em, "Number") = CountTokens(em, "Operator") + 1
        /\ state = End => (nw # <<>> /\ Last(nw).t = "Number")

\* tokenize returned two numbers around an operator, with whitespace
C24_Witness ==
    /\ pc = "done"
    /\ result.r = "Ok"
    /\ Len(NonWhitespace(result.tokens)) >= 3
    /\ Len(result.tokens) > Len(NonWhitespace(result.tokens))

\* the inputs of the claim with an operator after an operator, each with
\* the character that is rejected
C25_Examples ==
    { [string |-> <<"4", "3", " ", "+", " ", "+", " ", "8", "2">>, c |-> "+"],
      [string |-> <<"1", "-", "-", "2">>, c |-> "-"] }

(* C25: no signed numbers: an operator character is never added to the     *)
(* buffer; fed after a number or the spaces that follow it, it moves to     *)
(* Operator(kind), and fed in Initial, Operator(kind) or                    *)
(* WhitespaceAfterOperator it fails with UnexpectedCharacter of that        *)
(* character; every Number emitted is non-negative; an input starting with  *)
(* '-' fails with UnexpectedCharacter('-'), and "43 + + 82" and "1--2"      *)
(* fail with UnexpectedCharacter of the second operator character.          *)
C25_NoSignedNumbers ==
    [][ /\ IsFeed =>
              /\ \A i \in DOMAIN buffer' : buffer'[i] \notin OperatorChars
              /\ IsToken(Ret, {"Number"}) => (Ret.tok.v.m >= 0 /\ Ret.tok.v.e >= 0)
              /\ (Arg \in OperatorChars
                    /\ state.tag \in {"NumberIntegers", "NumberDecimals",
                                      "WhitespaceBeforeOperator"})
                    => (state' = Operator(get_operator_kind(Arg)) /\ buffer' = <<>>)
              /\ (Arg \in OperatorChars
                    /\ state.tag \in {"Initial", "Operator", "WhitespaceAfterOperator"})
                    => (Ret = Err(UnexpectedCharacter(Arg))
                          /\ state' = Error /\ buffer' = buffer)
        /\ (pc' = "done" /\ input # <<>> /\ input[1] \in OperatorChars)
              => result' = Err(UnexpectedCharacter(input[1]))
        /\ \A x \in C25_Examples :
              (pc' = "done" /\ input = x.string)
                  => (result' = Err(UnexpectedCharacter(x.c)) /\ Arg = x.c) ]_vars

\* an operator character was rejected right after another operator, a
\* number having been emitted before them
C25_Witness ==
    /\ Len(fed) >= 3
    /\ Last(fed) \in OperatorChars
    /\ fed[Len(fed) - 1] \in OperatorChars
    /\ fed[Len(fed) - 2] \in Digits
    /\ Last(rets) = Err(UnexpectedCharacter(Last(fed)))
    /\ IsToken(rets[Len(rets) - 1], {"Number"})
    /\ state = Error

====
